---- MODULE Spec2Model ----
(***************************************************************************)
(* A model of test262-harness (src/src/lib.rs, src/src/error.rs).          *)
(*                                                                         *)
(* A text (the contents of a corpus file, a file name, a needle) is a      *)
(* sequence of lexemes.  A lexeme is a string that stands for one or more  *)
(* bytes of the text: the characters of the two delimiters, whitespace and *)
(* punctuation are one lexeme each; a word (an identifier, a number, a     *)
(* YAML scalar, a keyword of the license notice) is one lexeme.  Offsets   *)
(* are 0-based and count lexemes, as Rust's count bytes; where every       *)
(* lexeme is a single character the two agree.                             *)
(***************************************************************************)
EXTENDS Integers, Sequences, FiniteSets, TLC

VARIABLES
    pc,          \* "start" | "ready" | "failed" | "panicked" | "call" | "done"
    walk,        \* what WalkDir yielded to Harness::new, in order
    new_result,  \* what Harness::new returned
    test_paths,  \* Harness.test_paths
    idx,         \* Harness.idx
    calls,       \* number of calls of next() made so far
    results,     \* the Some(..) items next() returned, in order
    nones,       \* number of calls of next() that returned None
    reads,       \* the std::fs::read_to_string calls made, in order
    input,       \* the argument of create_test (function specifications)
    output       \* what create_test did with it

vars == <<pc, walk, new_result, test_paths, idx, calls, results, nones, reads,
          input, output>>

(***************************************************************************)
(* Option and Result.                                                      *)
(***************************************************************************)
None == [some |-> FALSE, v |-> 0]

NoError == [type |-> "none"]

Some(x) == [some |-> TRUE, v |-> x]

Min(S) == CHOOSE x \in S : \A y \in S : x <= y

Max(S) == CHOOSE x \in S : \A y \in S : x >= y

\* Body applied to value, the value computed once
Let(value, Body(_)) == CHOOSE r \in {Body(v) : v \in {value}} : TRUE

RECURSIVE FlattenFrom(_, _)
FlattenFrom(ss, k) ==
    IF k > Len(ss) THEN <<>> ELSE ss[k] \o FlattenFrom(ss, k + 1)

\* the concatenation of a sequence of sequences
Flatten(ss) == Let(<<>> \o ss, LAMBDA t : FlattenFrom(t, 1))

(***************************************************************************)
(* str::find, str::ends_with, slicing and str::replace.                    *)
(***************************************************************************)
OccursAt(text, needle, i) ==
    /\ i + Len(needle) <= Len(text)
    /\ \A k \in 1..Len(needle) : text[i + k] = needle[k]

str_find(text, needle) ==
    LET hits == {i \in 0..Len(text) : OccursAt(text, needle, i)}
    IN  IF hits = {} THEN None ELSE Some(Min(hits))

ends_with(text, suffix) ==
    /\ Len(suffix) <= Len(text)
    /\ OccursAt(text, suffix, Len(text) - Len(suffix))

\* &s[from..to] panics unless from <= to <= s.len()
slice_panics(text, from, to) == from > to \/ to > Len(text)

slice(text, from, to) == SubSeq(text, from + 1, to)

replace(text, old, new) ==
    <<>> \o [i \in 1..Len(text) |-> IF text[i] = old THEN new ELSE text[i]]

(***************************************************************************)
(* Harness::find_yaml.                                                     *)
(***************************************************************************)
OpenDelim == <<"/", "*", "-", "-", "-">>

CloseDelim == <<"-", "-", "-", "*", "/">>

DescriptionInvalid(path) == [type |-> "DescriptionInvalid", path |-> path]

find_yaml_closeOptional(content, path) ==
    LET start == str_find(content, OpenDelim)
        end == str_find(content, CloseDelim)
    IN  IF ~start.some THEN [ok |-> FALSE, err |-> DescriptionInvalid(path), start |-> 0, end |-> 0]
        ELSE IF ~end.some
             THEN [ok |-> TRUE, err |-> NoError, start |-> start.v + 5, end |-> Len(content)]
        ELSE [ok |-> TRUE, err |-> NoError, start |-> start.v + 5, end |-> end.v]

find_yaml(content, path) ==
    LET start == str_find(content, OpenDelim)
        end == str_find(content, CloseDelim)
    IN  IF ~start.some THEN [ok |-> FALSE, err |-> DescriptionInvalid(path), start |-> 0, end |-> 0]
        ELSE IF ~end.some THEN [ok |-> FALSE, err |-> DescriptionInvalid(path), start |-> 0, end |-> 0]
        ELSE [ok |-> TRUE, err |-> NoError, start |-> start.v + 5, end |-> end.v]

(***************************************************************************)
(* The regex crate, as far as Harness::find_license uses it.               *)
(*                                                                         *)
(* A pattern is written as the sequence of its items, in source order: a   *)
(* character written as itself ("raw"), an escaped character, a bracketed  *)
(* class, \w, the dot, a group of alternatives, and a repetition operator, *)
(* which applies to the item before it.  Regex_new does what the flags of  *)
(* the pattern ask for: under x, whitespace written in the pattern is      *)
(* dropped, everywhere, bracketed classes included; under i, characters    *)
(* are compared with their case folded.  Matching is leftmost-first:       *)
(* Ends lists the ends of the matches starting at one offset in the order  *)
(* a backtracking matcher tries them, and the first one is the match.      *)
(***************************************************************************)
Item(t, raw, esc, alts, lo, hi) ==
    [t |-> t, raw |-> raw, esc |-> esc, alts |-> alts, lo |-> lo, hi |-> hi, run |-> <<>>]

Raw(c) == Item("lit", {c}, {}, <<>>, 1, 1)

Esc(c) == Item("lit", {}, {c}, <<>>, 1, 1)

Class(raw, esc) == Item("class", raw, esc, <<>>, 1, 1)

Word == Item("word", {}, {}, <<>>, 1, 1)

Dot == Item("any", {}, {}, <<>>, 1, 1)

Group(alts) == Item("group", {}, {}, alts, 1, 1)

Quant(lo, hi) == Item("quant", {}, {}, <<>>, lo, hi)

Unbounded == 0 - 1

Lits(lexemes) == [i \in 1..Len(lexemes) |-> Raw(lexemes[i])]

\* the words of a phrase with one space between them
Spaced(words) ==
    [i \in 1..(2 * Len(words) - 1) |->
        IF i % 2 = 1 THEN words[(i + 1) \div 2] ELSE " "]

Indent(n) == [i \in 1..n |-> Raw(" ")]

Whitespace == {" ", "\n", "\r", "\t"}

NonWord == Whitespace \cup {"/", "*", "-", ".", "(", ")", ":", "[", "]", ",", "!", "<FF>"}

IsWord(c) == c \notin NonWord

Lower ==
    [c \in {"C", "Copyright", "All", "This", "See", "Use", "BSD", "MIT", "LICENSE"} |->
        CASE c = "C" -> "c"
          [] c = "Copyright" -> "copyright"
          [] c = "All" -> "all"
          [] c = "This" -> "this"
          [] c = "See" -> "see"
          [] c = "Use" -> "use"
          [] c = "BSD" -> "bsd"
          [] c = "MIT" -> "mit"
          [] c = "LICENSE" -> "license"]

Fold(c, flags) == IF "i" \in flags /\ c \in DOMAIN Lower THEN Lower[c] ELSE c

IsLayout(it, flags) ==
    "x" \in flags /\ it.t = "lit" /\ it.raw # {} /\ it.raw \subseteq Whitespace

\* the items of a sequence that are left once the layout is dropped
DropLayout(items, flags) ==
    SelectSeq(items, LAMBDA it : ~IsLayout(it, flags))

\* each item with the repetition operator that follows it
Bind(items) ==
    LET at == SelectSeq([i \in 1..Len(items) |-> i], LAMBDA i : items[i].t # "quant")
    IN  [k \in 1..Len(at) |->
            LET i == at[k]
            IN  IF i < Len(items) /\ items[i + 1].t = "quant"
                THEN [items[i] EXCEPT !.lo = items[i + 1].lo, !.hi = items[i + 1].hi]
                ELSE items[i]]

IsPlain(it) == it.t = "lit" /\ it.lo = 1 /\ it.hi = 1

\* consecutive characters that are not repeated, taken as one literal
Literals(items) ==
    LET n == Len(items)
        heads == SelectSeq([i \in 1..n |-> i],
                           LAMBDA i : ~IsPlain(items[i]) \/ i = 1 \/ ~IsPlain(items[i - 1]))
        last(i) == Max({j \in i..n : \A k \in i..j : IsPlain(items[k])})
    IN  [k \in 1..Len(heads) |->
            IF IsPlain(items[heads[k]])
            THEN [items[heads[k]] EXCEPT
                    !.t = "run",
                    !.run = [m \in 1..(last(heads[k]) - heads[k] + 1) |->
                                items[heads[k] + m - 1].raw]]
            ELSE items[heads[k]]]

RECURSIVE Compile(_, _)
Compile(items, flags) ==
    LET kept == Bind(DropLayout(items, flags))
        One(it) ==
            IF it.t = "group"
            THEN [it EXCEPT !.alts = [j \in 1..Len(it.alts) |-> Compile(it.alts[j], flags)]]
            ELSE [it EXCEPT
                    !.raw = {Fold(c, flags) :
                                c \in (IF "x" \in flags THEN it.raw \ Whitespace ELSE it.raw)
                                      \cup it.esc},
                    !.esc = {}]
    IN  Literals([i \in 1..Len(kept) |-> One(kept[i])])

Accepts(it, c, flags) ==
    CASE it.t = "word" -> IsWord(c)
      [] it.t = "any" -> c # "\n"
      [] OTHER -> Fold(c, flags) \in it.raw

\* a literal at pos
RunEnds(it, text, pos, flags) ==
    IF /\ pos + Len(it.run) <= Len(text)
       /\ \A k \in 1..Len(it.run) : Fold(text[pos + k], flags) \in it.run[k]
    THEN <<pos + Len(it.run)>>
    ELSE <<>>

\* a repeated character, class, \w or dot at pos: greedy, the longest first
CharEnds(it, text, pos, flags) ==
    Let(Max({k \in 0..(Len(text) - pos) :
                /\ it.hi # Unbounded => k <= it.hi
                /\ \A j \in 1..k : Accepts(it, text[pos + j], flags)}),
        LAMBDA most :
            IF most < it.lo THEN <<>>
            ELSE [k \in 1..(most - it.lo + 1) |-> pos + most - k + 1])

RECURSIVE SeqEnds(_, _, _, _, _), GroupEnds(_, _, _, _, _)
\* a repeated group at pos: one more repetition is tried before stopping; a
\* repetition that is not needed and matches nothing is not tried again
GroupEnds(it, count, text, pos, flags) ==
    LET more ==
            IF it.hi # Unbounded /\ count >= it.hi THEN <<>>
            ELSE Let(Flatten([j \in 1..Len(it.alts) |->
                                SeqEnds(it.alts[j], 1, text, pos, flags)]),
                     LAMBDA es :
                        Flatten([k \in 1..Len(es) |->
                                    IF es[k] = pos /\ count >= it.lo THEN <<>>
                                    ELSE GroupEnds(it, count + 1, text, es[k], flags)]))
        stop == IF count >= it.lo THEN <<pos>> ELSE <<>>
    IN  more \o stop

ItemEnds(it, text, pos, flags) ==
    CASE it.t = "group" -> GroupEnds(it, 0, text, pos, flags)
      [] it.t = "run" -> RunEnds(it, text, pos, flags)
      [] OTHER -> CharEnds(it, text, pos, flags)

\* the ends of the matches of items[i..] that start at pos, best first
SeqEnds(items, i, text, pos, flags) ==
    IF i > Len(items) THEN <<pos>>
    ELSE Let(ItemEnds(items[i], text, pos, flags),
             LAMBDA es :
                Flatten([k \in 1..Len(es) |-> SeqEnds(items, i + 1, text, es[k], flags)]))

\* Regex::new: the pattern of this program is well formed, so it compiles
Regex_new(pattern) ==
    [ok |-> TRUE,
     re |-> [flags |-> pattern.flags, items |-> Compile(pattern.items, pattern.flags)]]

\* Regex::find: the leftmost match, as (start, end)
Regex_find(re, text) ==
    Let({s \in 0..Len(text) : SeqEnds(re.items, 1, text, s, re.flags) # <<>>},
        LAMBDA starts :
            IF starts = {} THEN None
            ELSE Some(<<Min(starts),
                        Head(SeqEnds(re.items, 1, text, Min(starts), re.flags))>>))

(***************************************************************************)
(* Harness::find_license: the pattern, item by item as the source writes   *)
(* it (line breaks and indentation included), and the search.              *)
(***************************************************************************)
Layout(n) == <<Raw("\n")>> \o Indent(n)

CopyrightLine ==
    Lits(<<"/", "/", " ", "Copyright">>)
    \o <<Group(<<Lits(<<" ">>) \o <<Esc("("), Class({"C"}, {}), Esc(")")>>>>), Quant(0, 1)>>
    \o Lits(<<" ">>) \o <<Group(<<<<Word, Quant(1, Unbounded)>>>>)>>
    \o Lits(<<" ">>) \o <<Dot, Quant(1, Unbounded), Esc(".")>>
    \o Lits(<<" ">>) \o <<Quant(1, 2)>>
    \o Lits(Spaced(<<"All", "rights", "reserved">>))
    \o <<Esc("."), Class({}, {"\r", "\n"}), Quant(1, 2)>>

GovernedBy ==
    Layout(16)
    \o Lits(<<"/", "/", " ">> \o Spaced(<<"This", "code", "is", "governed", "by", "the">>))
    \o <<Group(<<Lits(<<" ", "BSD">>)>>), Quant(0, 1)>>
    \o Lits(<<" ">> \o Spaced(<<"license", "found", "in", "the", "LICENSE", "file">>))
    \o <<Esc(".")>>
    \o Layout(16)

SeeDetails ==
    Layout(16)
    \o Lits(<<"/", "/", " ">> \o Spaced(<<"See", "LICENSE", "for", "details">>))
    \o <<Dot>>
    \o Layout(16)

BsdStyle ==
    Layout(16)
    \o Lits(<<"/", "/", " ">>
            \o Spaced(<<"Use", "of", "this", "source", "code", "is", "governed", "by", "a">>)
            \o <<" ", "BSD", "-", "style", " ">>
            \o Spaced(<<"license", "that", "can", "be">>))
    \o <<Class({}, {"\r", "\n"}), Quant(1, 2)>>
    \o Layout(16)
    \o Lits(<<"/", "/", " ">> \o Spaced(<<"found", "in", "the", "LICENSE", "file">>))
    \o <<Esc(".")>>
    \o Layout(16)

SeeUrl ==
    Layout(16)
    \o Lits(<<"/", "/", " ">> \o Spaced(<<"See", "LICENSE", "or">>)
            \o <<" ", "https", ":", "/", "/", "github">>)
    \o <<Esc(".")>>
    \o Lits(<<"com", "/", "tc39", "/", "test262", "/", "blob", "/", "master", "/", "LICENSE">>)
    \o Layout(12)

LicensePattern ==
    [flags |-> {"i", "x"},
     items |->
        Layout(8)
        \o CopyrightLine
        \o Layout(12)
        \o <<Group(<<GovernedBy, SeeDetails, BsdStyle, SeeUrl>>)>>
        \o <<Group(<<<<Class({" "}, {"\t"}), Quant(0, Unbounded),
                       Class({}, {"\r", "\n"}), Quant(1, 2)>>>>),
             Quant(0, Unbounded)>>]

\* the value of Regex::new(r"(?ix: ... )"), the same at every call
LicenseRegex == Regex_new(LicensePattern)

find_license_errorWhenAbsent(content) ==
    IF ~LicenseRegex.ok THEN [ok |-> FALSE, err |-> [type |-> "Regex"], license |-> None]
    ELSE Let(Regex_find(LicenseRegex.re, content),
             LAMBDA matches :
                IF matches.some
                THEN [ok |-> TRUE, err |-> [type |-> "none"],
                      license |-> Some(<<matches.v[1], matches.v[2]>>)]
                ELSE [ok |-> FALSE, err |-> [type |-> "Regex"], license |-> None])

find_license(content) ==
    IF ~LicenseRegex.ok THEN [ok |-> FALSE, err |-> [type |-> "Regex"], license |-> None]
    ELSE Let(Regex_find(LicenseRegex.re, content),
             LAMBDA matches :
                IF matches.some
                THEN [ok |-> TRUE, err |-> [type |-> "none"],
                      license |-> Some(<<matches.v[1], matches.v[2]>>)]
                ELSE [ok |-> TRUE, err |-> [type |-> "none"], license |-> None])

(***************************************************************************)
(* serde_yaml::from_str::<Description>.                                    *)
(*                                                                         *)
(* The YAML read here is the block form the corpus uses: one "key: value"  *)
(* per line, a value being a plain scalar, a flow sequence "[a, b]" of     *)
(* plain scalars or, on the indented lines that follow a key without a     *)
(* value, a mapping of scalars.  Any other line is a syntax error.  The    *)
(* mapping is then decoded the way the derives on Description, Negative,   *)
(* Phase and Flag say: a key that is no field is skipped, a field given    *)
(* twice is an error, an Option field that is absent is None, a            *)
(* #[serde(default)] field that is absent is empty, an enum value is       *)
(* looked up by its camelCase name or an alias.                            *)
(***************************************************************************)
YamlError == [type |-> "Yaml"]

IsBreak(c) == c \in {"\n", "\r"}

IsScalar(c) == c \notin NonWord

Positions(text, Test(_)) ==
    SelectSeq([i \in 1..Len(text) |-> i], LAMBDA i : Test(text[i]))

\* the lines of a text, their line breaks left out
Lines(text) ==
    Let(Positions(text, IsBreak),
        LAMBDA brk :
            <<>> \o [k \in 1..(Len(brk) + 1) |->
                        SubSeq(text,
                               IF k = 1 THEN 1 ELSE brk[k - 1] + 1,
                               IF k = Len(brk) + 1 THEN Len(text) ELSE brk[k] - 1)])

IsBlank(line) == \A i \in 1..Len(line) : line[i] = " "

Indentation(line) ==
    Min({i \in 1..(Len(line) + 1) : i = Len(line) + 1 \/ line[i] # " "}) - 1

Value(t, s, xs) == [t |-> t, s |-> s, xs |-> xs]

\* one line "key:", "key: scalar" or "key: [scalar, scalar]"
ParseLine(line) ==
    LET ind == Indentation(line)
        rest == SubSeq(line, ind + 1, Len(line))
        n == Len(rest)
        inner == SubSeq(rest, 5, n - 1)
        keyed == n >= 2 /\ IsScalar(rest[1]) /\ rest[2] = ":"
        bad == [ok |-> FALSE, ind |-> ind, key |-> "", val |-> Value("null", "", <<>>)]
        good(v) == [ok |-> TRUE, ind |-> ind, key |-> rest[1], val |-> v]
    IN  IF ~keyed THEN bad
        ELSE IF n = 2 THEN good(Value("null", "", <<>>))
        ELSE IF rest[3] # " " \/ n < 4 THEN bad
        ELSE IF n = 4 /\ IsScalar(rest[4]) THEN good(Value("str", rest[4], <<>>))
        ELSE IF rest[4] = "[" /\ n >= 5 /\ rest[n] = "]"
             THEN IF inner = <<>> THEN good(Value("seq", "", <<>>))
                  ELSE IF /\ Len(inner) % 3 = 1
                          /\ \A i \in 1..Len(inner) :
                                CASE i % 3 = 1 -> IsScalar(inner[i])
                                  [] i % 3 = 2 -> inner[i] = ","
                                  [] OTHER -> inner[i] = " "
                       THEN good(Value("seq", "",
                                       [j \in 1..((Len(inner) + 2) \div 3) |-> inner[3 * j - 2]]))
                  ELSE bad
        ELSE bad

\* the entries of the document: the lines at indentation 0, each with the
\* lines nested under it
Entries(ps) ==
    LET n == Len(ps)
        tops == SelectSeq([i \in 1..n |-> i], LAMBDA i : ps[i].ind = 0)
        owner(i) == Max({t \in 1..i : ps[t].ind = 0})
        nestedOk(i) ==
            /\ ps[i].ind = 2
            /\ \E t \in 1..(i - 1) : ps[t].ind = 0
            /\ ps[owner(i)].val.t = "null"
            /\ ps[i].val.t \in {"null", "str"}
        nested(t) ==
            SelectSeq([i \in 1..n |-> i],
                      LAMBDA i : i > t /\ ps[i].ind # 0 /\ owner(i) = t)
        entry(t) ==
            [key |-> ps[t].key,
             val |-> IF nested(t) = <<>> THEN ps[t].val ELSE Value("map", "", <<>>),
             map |-> <<>> \o [j \in 1..Len(nested(t)) |->
                                [key |-> ps[nested(t)[j]].key,
                                 val |-> ps[nested(t)[j]].val]]]
    IN  IF n = 0 THEN [ok |-> FALSE, doc |-> <<>>]
        ELSE IF \E i \in 1..n : ~ps[i].ok \/ (ps[i].ind # 0 /\ ~nestedOk(i))
             THEN [ok |-> FALSE, doc |-> <<>>]
        ELSE [ok |-> TRUE, doc |-> <<>> \o [k \in 1..Len(tops) |-> entry(tops[k])]]

ParseYaml(text) ==
    Let(SelectSeq(Lines(text), LAMBDA l : ~IsBlank(l)),
        LAMBDA lines :
            Let(<<>> \o [i \in 1..Len(lines) |-> ParseLine(lines[i])], Entries))

Phases == {"Parse", "Early", "Resolution", "Runtime"}

Flags ==
    {"OnlyStrict", "NoStrict", "Module", "Raw", "Async", "Generated",
     "CanBlockIsFalse", "CanBlockIsTrue", "NonDeterministic"}

\* #[serde(rename_all = "camelCase")]
camelCase(variant) ==
    CASE variant = "Parse" -> "parse"
      [] variant = "Early" -> "early"
      [] variant = "Resolution" -> "resolution"
      [] variant = "Runtime" -> "runtime"
      [] variant = "OnlyStrict" -> "onlyStrict"
      [] variant = "NoStrict" -> "noStrict"
      [] variant = "Module" -> "module"
      [] variant = "Raw" -> "raw"
      [] variant = "Async" -> "async"
      [] variant = "Generated" -> "generated"
      [] variant = "CanBlockIsFalse" -> "canBlockIsFalse"
      [] variant = "CanBlockIsTrue" -> "canBlockIsTrue"
      [] variant = "NonDeterministic" -> "nonDeterministic"

\* #[serde(alias = "...")] on the variants of Flag
FlagAliases(variant) ==
    CASE variant = "CanBlockIsFalse" -> {"CanBlockIsFalse"}
      [] variant = "CanBlockIsTrue" -> {"CanBlockIsTrue"}
      [] variant = "NonDeterministic" -> {"non-deterministic"}
      [] OTHER -> {}

PhaseNamed(s) == {v \in Phases : camelCase(v) = s}

FlagNamed(s) == {v \in Flags : camelCase(v) = s \/ s \in FlagAliases(v)}

\* #[serde(alias = "type")] on Negative.kind
KindKeys_noAlias == {"kind"}

KindKeys == {"kind", "type"}

Given(entries, keys) == SelectSeq(entries, LAMBDA e : e.key \in keys)

OptionString(entries, keys) ==
    LET es == Given(entries, keys)
    IN  IF es = <<>> THEN [ok |-> TRUE, v |-> None]
        ELSE IF Len(es) > 1 THEN [ok |-> FALSE, v |-> None]
        ELSE IF es[1].val.t = "null" THEN [ok |-> TRUE, v |-> None]
        ELSE IF es[1].val.t = "str" THEN [ok |-> TRUE, v |-> Some(es[1].val.s)]
        ELSE [ok |-> FALSE, v |-> None]

VecString(entries, key) ==
    LET es == Given(entries, {key})
    IN  IF es = <<>> THEN [ok |-> TRUE, v |-> <<>>]
        ELSE IF Len(es) > 1 \/ es[1].val.t # "seq" THEN [ok |-> FALSE, v |-> <<>>]
        ELSE [ok |-> TRUE, v |-> es[1].val.xs]

VecFlag(entries, key) ==
    LET strs == VecString(entries, key)
    IN  IF ~strs.ok \/ \E i \in 1..Len(strs.v) : FlagNamed(strs.v[i]) = {}
        THEN [ok |-> FALSE, v |-> <<>>]
        ELSE [ok |-> TRUE,
              v |-> [i \in 1..Len(strs.v) |-> CHOOSE f \in FlagNamed(strs.v[i]) : TRUE]]

DeserializeNegative(entries) ==
    LET phase == Given(entries, {"phase"})
        kind == OptionString(entries, KindKeys)
        bad == [ok |-> FALSE, v |-> None]
    IN  IF Len(phase) # 1 \/ ~kind.ok THEN bad
        ELSE IF phase[1].val.t # "str" \/ PhaseNamed(phase[1].val.s) = {} THEN bad
        ELSE [ok |-> TRUE,
              v |-> Some([phase |-> CHOOSE v \in PhaseNamed(phase[1].val.s) : TRUE,
                          kind |-> kind.v])]

OptionNegative(entries) ==
    LET es == Given(entries, {"negative"})
    IN  IF es = <<>> THEN [ok |-> TRUE, v |-> None]
        ELSE IF Len(es) > 1 THEN [ok |-> FALSE, v |-> None]
        ELSE IF es[1].val.t = "null" THEN [ok |-> TRUE, v |-> None]
        ELSE IF es[1].val.t = "map" THEN DeserializeNegative(es[1].map)
        ELSE [ok |-> FALSE, v |-> None]

DeserializeDescription(doc) ==
    LET id == OptionString(doc, {"id"})
        esid == OptionString(doc, {"esid"})
        es5id == OptionString(doc, {"es5id"})
        es6id == OptionString(doc, {"es6id"})
        info == OptionString(doc, {"info"})
        description == OptionString(doc, {"description"})
        negative == OptionNegative(doc)
        includes == VecString(doc, "includes")
        flags == VecFlag(doc, "flags")
        locale == VecString(doc, "locale")
        features == VecString(doc, "features")
    IN  IF /\ id.ok /\ esid.ok /\ es5id.ok /\ es6id.ok /\ info.ok /\ description.ok
           /\ negative.ok /\ includes.ok /\ flags.ok /\ locale.ok /\ features.ok
        THEN [ok |-> TRUE, err |-> NoError,
              desc |-> [id |-> id.v, esid |-> esid.v, es5id |-> es5id.v,
                        es6id |-> es6id.v, info |-> info.v,
                        description |-> description.v, negative |-> negative.v,
                        includes |-> includes.v, flags |-> flags.v,
                        locale |-> locale.v, features |-> features.v]]
        ELSE [ok |-> FALSE, err |-> YamlError, desc |-> <<>>]

serde_yaml_from_str(yaml) ==
    Let(ParseYaml(yaml),
        LAMBDA parsed :
            IF ~parsed.ok THEN [ok |-> FALSE, err |-> YamlError, desc |-> <<>>]
            ELSE DeserializeDescription(parsed.doc))

(***************************************************************************)
(* Harness::create_test, Harness::create_test_from_file and Test::license. *)
(* An outcome is what a call came to: "Ok" with the Test, "Err" with the   *)
(* Error, or "Panic" when a slice index is out of order; trace lists the   *)
(* calls the function made on its way.                                     *)
(***************************************************************************)
NoTest == [desc |-> <<>>, license |-> None, path |-> <<>>, source |-> <<>>]

Outcome(kind, test, err, trace) ==
    [kind |-> kind, test |-> test, err |-> err, trace |-> trace]

\* after find_yaml succeeded and the slice was taken
decode(contents, path, yaml) ==
    Let(find_license(contents),
        LAMBDA license :
            IF ~license.ok
            THEN Outcome("Err", NoTest, license.err, <<"find_yaml", "find_license">>)
            ELSE Let(serde_yaml_from_str(yaml),
                     LAMBDA desc :
                        IF ~desc.ok
                        THEN Outcome("Err", NoTest, desc.err,
                                     <<"find_yaml", "find_license", "from_str">>)
                        ELSE Outcome("Ok",
                                     [desc |-> desc.desc, license |-> license.license,
                                      path |-> path, source |-> contents],
                                     NoError, <<"find_yaml", "find_license", "from_str">>)))

create_test(contents, path) ==
    Let(find_yaml(contents, path),
        LAMBDA range :
            IF ~range.ok
            THEN Outcome("Err", NoTest, range.err, <<"find_yaml">>)
            ELSE IF slice_panics(contents, range.start, range.end)
            THEN Outcome("Panic", NoTest, NoError, <<"find_yaml">>)
            ELSE Let(replace(slice(contents, range.start, range.end), "\r", "\n"),
                     LAMBDA yaml : decode(contents, path, yaml)))

\* file is what std::fs::read_to_string(p) returns
create_test_from_file(p, file) ==
    IF ~file.ok THEN Outcome("Err", NoTest, [type |-> "Io"], <<>>)
    ELSE create_test(file.text, p)

Test_license(test) ==
    IF ~test.license.some THEN None
    ELSE Some(slice(test.source, test.license.v[1], test.license.v[2]))

(***************************************************************************)
(* Harness::new.  A file name is the sequence of its characters, "<FF>"    *)
(* standing for a byte that is not valid UTF-8.  WalkDir yields, for each  *)
(* entry below the root, the entry or an error.                            *)
(***************************************************************************)
\* Path::extension: what follows the last dot, unless the name starts with it
extension(name) ==
    LET dots == {i \in 1..Len(name) : name[i] = "."}
    IN  IF dots = {} \/ Max(dots) = 1 THEN None
        ELSE Some(SubSeq(name, Max(dots) + 1, Len(name)))

\* OsStr::to_str
to_str(name) ==
    IF \E i \in 1..Len(name) : name[i] = "<FF>" THEN None ELSE Some(name)

FixtureSuffix == <<"_", "F", "I", "X", "T", "U", "R", "E", ".", "j", "s">>

Skip == [t |-> "None", path |-> <<>>, err |-> ""]

\* the closure given to filter_map
keep_entry_skipErrors(e) ==
    IF ~e.ok THEN Skip
    ELSE IF e.dir THEN Skip
    ELSE IF ~extension(e.name).some THEN Skip
    ELSE IF extension(e.name).v = <<"j", "s">>
         THEN IF ~to_str(e.name).some THEN Skip
              ELSE IF ends_with(to_str(e.name).v, FixtureSuffix) THEN Skip
              ELSE [t |-> "Ok", path |-> e.name, err |-> ""]
    ELSE Skip

keep_entry(e) ==
    IF ~e.ok THEN [t |-> "Err", path |-> <<>>, err |-> e.err]
    ELSE IF e.dir THEN Skip
    ELSE IF ~extension(e.name).some THEN Skip
    ELSE IF extension(e.name).v = <<"j", "s">>
         THEN IF ~to_str(e.name).some THEN Skip
              ELSE IF ends_with(to_str(e.name).v, FixtureSuffix) THEN Skip
              ELSE [t |-> "Ok", path |-> e.name, err |-> ""]
    ELSE Skip

\* filter_map(..).collect::<Result<Vec<PathBuf>, walkdir::Error>>()
Harness_new(entries) ==
    LET kept == [i \in 1..Len(entries) |-> keep_entry(entries[i])]
        errs == {i \in 1..Len(kept) : kept[i].t = "Err"}
        oks == SelectSeq(kept, LAMBDA k : k.t = "Ok")
    IN  IF errs # {}
        THEN [ok |-> FALSE, err |-> [type |-> "WalkDir", cause |-> kept[Min(errs)].err],
              test_paths |-> <<>>]
        ELSE [ok |-> TRUE, err |-> NoError,
              test_paths |-> [i \in 1..Len(oks) |-> oks[i].path]]

\* self.test_paths.get(self.idx)
current_path_first(paths, i) == paths[1]

current_path(paths, i) == paths[i + 1]

(***************************************************************************)
(* Bounds.                                                                 *)
(***************************************************************************)
\* entries WalkDir yields in one traversal
MaxEntries == 3

\* calls of next() made after the paths are used up
MaxNone == 2

\* pieces a text of the delimiter specification is put together from
MaxPieces == 3

\* blank lines between the license notice and the metadata block
MaxBlank == 2

(***************************************************************************)
(* The directory trees and the file contents the harness is run on.        *)
(***************************************************************************)
File(name) == [ok |-> TRUE, name |-> name, dir |-> FALSE, err |-> ""]

Dir(name) == [ok |-> TRUE, name |-> name, dir |-> TRUE, err |-> ""]

Failure(e) == [ok |-> FALSE, name |-> <<>>, dir |-> FALSE, err |-> e]

WalkItems ==
    { File(<<"a", ".", "j", "s">>),
      File(<<"b", ".", "j", "s">>),
      File(<<"c", ".", "j", "s">>),
      File(<<"a">> \o FixtureSuffix),
      Dir(<<"d", ".", "j", "s">>),
      File(<<"a", ".", "j", "s", "o", "n">>),
      File(<<"R", "E", "A", "D", "M", "E">>),
      File(<<".", "j", "s">>),
      File(<<"<FF>", ".", "j", "s">>),
      Failure("EACCES"),
      Failure("ELOOP") }

\* a traversal visits no entry twice
Walks ==
    {w \in UNION {[1..n -> WalkItems] : n \in 0..MaxEntries} :
        \A i, j \in 1..Len(w) : (i # j /\ w[i].ok /\ w[j].ok) => w[i].name # w[j].name}

Body(lines) == OpenDelim \o <<"\n">> \o lines \o CloseDelim

IdLine == <<"id", ":", " ", "x", "\n">>

Readable(text) == [ok |-> TRUE, text |-> text]

Unreadable == [ok |-> FALSE, text |-> <<>>]

FileContents ==
    { Unreadable,
      Readable(Body(IdLine)),
      Readable(IdLine \o CloseDelim),
      Readable(OpenDelim \o <<"\n">> \o IdLine),
      Readable(IdLine),
      Readable(Body(<<"x", "\n">>)),
      Readable(OpenDelim \o <<"*", "/">>) }

(***************************************************************************)
(* The harness: Harness::new, then calls of next().                        *)
(***************************************************************************)
NoInput == [contents |-> <<>>, path |-> <<>>, choice |-> <<>>]

NoOutput == Outcome("none", NoTest, NoError, <<>>)

NotBuilt == [ok |-> FALSE, err |-> NoError, test_paths |-> <<>>]

Fresh ==
    /\ walk = <<>>
    /\ new_result = NotBuilt
    /\ test_paths = <<>>
    /\ idx = 0
    /\ calls = 0
    /\ results = <<>>
    /\ nones = 0
    /\ reads = <<>>

Init ==
    /\ pc = "start"
    /\ Fresh
    /\ input = NoInput
    /\ output = NoOutput

new ==
    /\ pc = "start"
    /\ \E w \in Walks :
       \E built \in {Harness_new(w)} :
            /\ walk' = w
            /\ new_result' = built
            /\ test_paths' = built.test_paths
            /\ pc' = IF built.ok THEN "ready" ELSE "failed"
    /\ idx' = 0
    /\ UNCHANGED <<calls, results, nones, reads, input, output>>

next ==
    /\ pc = "ready"
    /\ calls' = calls + 1
    /\ IF idx >= Len(test_paths)
       THEN /\ nones < MaxNone
            /\ nones' = nones + 1
            /\ UNCHANGED <<pc, idx, results, reads>>
       ELSE \E file \in FileContents :
            \E item \in {create_test_from_file(current_path(test_paths, idx), file)} :
                /\ idx' = idx + 1
                /\ reads' = Append(reads, [path |-> current_path(test_paths, idx),
                                           file |-> file])
                /\ IF item.kind = "Panic"
                   THEN pc' = "panicked" /\ UNCHANGED results
                   ELSE UNCHANGED pc /\ results' = Append(results, item)
                /\ UNCHANGED nones
    /\ UNCHANGED <<walk, new_result, test_paths, input, output>>

Next == new \/ next

Spec == Init /\ [][Next]_vars

(***************************************************************************)
(* create_test as a function: one call on an input drawn by Init.          *)
(***************************************************************************)
Extract ==
    /\ pc = "call"
    /\ output' = create_test(input.contents, input.path)
    /\ pc' = "done"
    /\ UNCHANGED <<walk, new_result, test_paths, idx, calls, results, nones, reads, input>>

SomePaths == {<<"a", ".", "j", "s">>, <<"b", ".", "j", "s">>}

\* texts put together from the two delimiters and the characters around them
Pieces == {OpenDelim, CloseDelim, <<"\n">> \o IdLine, <<"x">>, <<"*">>, <<"/">>, <<"-">>}

PieceTexts == {Flatten(ps) : ps \in UNION {[1..n -> Pieces] : n \in 0..MaxPieces}}

InitYaml ==
    /\ pc = "call"
    /\ Fresh
    /\ \E t \in PieceTexts, p \in SomePaths :
        input = [contents |-> t, path |-> p, choice |-> <<>>]
    /\ output = NoOutput

SpecYaml == InitYaml /\ [][Extract]_vars

(***************************************************************************)
(* Texts with a license notice before the metadata block.  A notice is     *)
(* written with single spaces between its words, as the corpus writes it,  *)
(* or with none.                                                           *)
(***************************************************************************)
Phrase(words, style) == IF style = "spaced" THEN Spaced(words) ELSE words

Sep(style) == IF style = "spaced" THEN <<" ">> ELSE <<>>

CopyrightText(c) ==
    <<"/", "/">> \o Sep(c.style) \o <<"Copyright">>
    \o (IF c.mark = "none" THEN <<>> ELSE Sep(c.style) \o <<"(", c.mark, ")">>)
    \o Sep(c.style) \o <<"2020">>
    \o Sep(c.style) \o <<"rusty", "-", "ecma", ".">>
    \o Sep(c.style) \o Sep(c.style)
    \o Phrase(<<"All", "rights", "reserved">>, c.style) \o <<".", "\n">>

GovernedText(c, name) ==
    <<"/", "/">> \o Sep(c.style)
    \o Phrase(<<"This", "code", "is", "governed", "by", "the">>
              \o (IF name = "" THEN <<>> ELSE <<name>>)
              \o <<"license", "found", "in", "the", "LICENSE", "file">>, c.style)
    \o <<".", "\n">>

SecondText(c) ==
    CASE c.second = "none" -> <<>>
      [] c.second = "governed" -> GovernedText(c, "")
      [] c.second = "governedBSD" -> GovernedText(c, "BSD")
      [] c.second = "governedMIT" -> GovernedText(c, "MIT")
      [] c.second = "details" ->
            <<"/", "/">> \o Sep(c.style)
            \o Phrase(<<"See", "LICENSE", "for", "details">>, c.style) \o <<".", "\n">>
      [] c.second = "bsdStyle" ->
            <<"/", "/">> \o Sep(c.style)
            \o Phrase(<<"Use", "of", "this", "source", "code", "is", "governed", "by", "a">>,
                      c.style)
            \o Sep(c.style) \o <<"BSD", "-", "style">> \o Sep(c.style)
            \o Phrase(<<"license", "that", "can", "be">>, c.style) \o <<"\n">>
            \o <<"/", "/">> \o Sep(c.style)
            \o Phrase(<<"found", "in", "the", "LICENSE", "file">>, c.style) \o <<".", "\n">>
      [] c.second = "url" ->
            <<"/", "/">> \o Sep(c.style)
            \o Phrase(<<"See", "LICENSE", "or">>, c.style) \o Sep(c.style)
            \o <<"https", ":", "/", "/", "github", ".", "com", "/", "tc39", "/", "test262",
                 "/", "blob", "/", "master", "/", "LICENSE", "\n">>

NoticeText(c) == (IF c.copyright THEN CopyrightText(c) ELSE <<>>) \o SecondText(c)

Script == <<"\n", "let", " ", "x", "\n">>

LicenseText(c) ==
    NoticeText(c)
    \o [i \in 1..c.blank |-> "\n"]
    \o (IF c.comment THEN <<"/", "/", " ", "License", "!", "!", "!", "\n">> ELSE <<>>)
    \o Body(IF c.yaml = "good" THEN IdLine ELSE <<"x", "\n">>)
    \o Script

LicenseChoices ==
    [style : {"spaced", "glued"},
     copyright : BOOLEAN,
     mark : {"none", "c", "C"},
     second : {"none", "governed", "governedBSD", "governedMIT", "details", "bsdStyle", "url"},
     blank : 0..MaxBlank,
     comment : BOOLEAN,
     yaml : {"good", "bad"}]

InitLicense ==
    /\ pc = "call"
    /\ Fresh
    /\ \E c \in LicenseChoices, p \in SomePaths :
        input = [contents |-> LicenseText(c), path |-> p, choice |-> c]
    /\ output = NoOutput

SpecLicense == InitLicense /\ [][Extract]_vars

(***************************************************************************)
(* Metadata blocks.  A choice says which keys the block sets; the wire     *)
(* spellings are those of the corpus, each with the variant it stands for. *)
(***************************************************************************)
StrFields == <<"id", "esid", "es5id", "es6id", "info", "description">>

StrValue(f) ==
    CASE f = "id" -> "dummytest"
      [] f = "esid" -> "dummyesid"
      [] f = "es5id" -> "dummyes5id"
      [] f = "es6id" -> "dummyes6id"
      [] f = "info" -> "about"
      [] f = "description" -> "handy"

Spelled(wire, variant) == [wire |-> wire, variant |-> variant]

FlagChoices ==
    { <<>>,
      <<Spelled("noStrict", "NoStrict")>>,
      <<Spelled("onlyStrict", "OnlyStrict"), Spelled("module", "Module")>>,
      <<Spelled("raw", "Raw"), Spelled("async", "Async"), Spelled("generated", "Generated")>>,
      <<Spelled("canBlockIsFalse", "CanBlockIsFalse"),
        Spelled("canBlockIsTrue", "CanBlockIsTrue")>>,
      <<Spelled("CanBlockIsFalse", "CanBlockIsFalse"),
        Spelled("CanBlockIsTrue", "CanBlockIsTrue"),
        Spelled("non-deterministic", "NonDeterministic")>>,
      <<Spelled("noStrict", "NoStrict"), Spelled("strict", "")>> }

PhaseChoices ==
    { Spelled("parse", "Parse"), Spelled("early", "Early"),
      Spelled("resolution", "Resolution"), Spelled("runtime", "Runtime"),
      Spelled("compile", ""), Spelled("", "") }

\* keys: the keys the exception name is given under
NegativeChoices ==
    [present : {TRUE}, phase : PhaseChoices, keys : {<<>>, <<"kind">>, <<"type">>, <<"kind", "type">>}]
    \cup {[present |-> FALSE, phase |-> Spelled("", ""), keys |-> <<>>]}

DocChoices ==
    [strs : {{}} \cup {{StrFields[i]} : i \in 1..Len(StrFields)}
              \cup {{StrFields[i] : i \in 1..Len(StrFields)}},
     hasFlags : BOOLEAN,
     flags : FlagChoices,
     lists : BOOLEAN,
     negative : NegativeChoices,
     eol : {"\n", "\r"}]

FlowSeq(xs) ==
    <<"[">> \o Flatten([i \in 1..Len(xs) |-> IF i = 1 THEN <<xs[i]>> ELSE <<",", " ", xs[i]>>])
    \o <<"]">>

DocLines(d) ==
    Flatten([i \in 1..Len(StrFields) |->
                IF StrFields[i] \in d.strs
                THEN <<StrFields[i], ":", " ", StrValue(StrFields[i]), d.eol>>
                ELSE <<>>])
    \o (IF d.negative.present
        THEN <<"negative", ":", d.eol>>
             \o (IF d.negative.phase.wire = "" THEN <<>>
                 ELSE <<" ", " ", "phase", ":", " ", d.negative.phase.wire, d.eol>>)
             \o Flatten([i \in 1..Len(d.negative.keys) |->
                            <<" ", " ", d.negative.keys[i], ":", " ", "Exception", d.eol>>])
        ELSE <<>>)
    \o (IF d.hasFlags
        THEN <<"flags", ":", " ">> \o FlowSeq([i \in 1..Len(d.flags) |-> d.flags[i].wire])
             \o <<d.eol>>
        ELSE <<>>)
    \o (IF d.lists
        THEN <<"locale", ":", " ">> \o FlowSeq(<<"en-us">>) \o <<d.eol>>
             \o <<"features", ":", " ">> \o FlowSeq(<<"BestFeature", "let">>) \o <<d.eol>>
             \o <<"includes", ":", " ">> \o FlowSeq(<<"assert.js">>) \o <<d.eol>>
        ELSE <<>>)

DocText(d) ==
    <<"\n", "/", "/", " ", "License", "!", "!", "!", "\n">>
    \o OpenDelim \o <<d.eol>> \o DocLines(d) \o CloseDelim \o Script

InitDecode ==
    /\ pc = "call"
    /\ Fresh
    /\ \E d \in DocChoices :
        /\ (~d.hasFlags => d.flags = <<>>)
        /\ input = [contents |-> DocText(d), path |-> <<"a", ".", "j", "s">>, choice |-> d]
    /\ output = NoOutput

SpecDecode == InitDecode /\ [][Extract]_vars

(***************************************************************************)
(* The properties.                                                         *)
(***************************************************************************)
Occurs(text, needle) == \E i \in 0..Len(text) : OccursAt(text, needle, i)

FirstAt(text, needle) == Min({i \in 0..Len(text) : OccursAt(text, needle, i)})

\* C1: once the Harness is built every call of next() returns something: the
\* k-th call, while paths remain, the result (Ok or Err) of extracting the
\* k-th path, and every call after the last path None.
C1_EveryCallYields ==
    pc \in {"ready", "panicked"} =>
        /\ calls = Len(results) + nones
        /\ Len(results) <= Len(test_paths)
        /\ \A i \in 1..Len(results) :
            /\ results[i].kind \in {"Ok", "Err"}
            /\ results[i] = create_test_from_file(test_paths[i], reads[i].file)
        /\ nones > 0 => Len(results) = Len(test_paths)

\* C2: for a text in which both delimiters occur, find_yaml returns (s, e)
\* with s just after the first opening delimiter, e at the first closing
\* delimiter and s <= e <= length, and create_test slices the text with it.
C2_RangeInOrder ==
    (/\ pc = "done"
     /\ Occurs(input.contents, OpenDelim)
     /\ Occurs(input.contents, CloseDelim)) =>
        LET range == find_yaml(input.contents, input.path)
        IN  /\ range.ok
            /\ range.start = FirstAt(input.contents, OpenDelim) + Len(OpenDelim)
            /\ range.end = FirstAt(input.contents, CloseDelim)
            /\ range.start <= range.end
            /\ range.end <= Len(input.contents)
            /\ output.kind # "Panic"

\* C3: for a text that lacks the opening delimiter, the closing delimiter
\* or both, create_test returns Err(DescriptionInvalid(path)) with the path
\* it was given, builds no Test, and calls nothing after find_yaml.
C3_MissingDelimiter ==
    (/\ pc = "done"
     /\ \/ ~Occurs(input.contents, OpenDelim)
        \/ ~Occurs(input.contents, CloseDelim)) =>
        /\ output.kind = "Err"
        /\ output.err = [type |-> "DescriptionInvalid", path |-> input.path]
        /\ output.test = NoTest
        /\ output.trace = <<"find_yaml">>

\* C3, reached: a text with the opening delimiter and no closing one
C3_OnlyOpenPresent ==
    /\ pc = "done"
    /\ Occurs(input.contents, OpenDelim)
    /\ ~Occurs(input.contents, CloseDelim)
    /\ output.kind = "Err"
    /\ output.err.type = "DescriptionInvalid"

Scripts(entries) ==
    {entries[i].name : i \in {j \in 1..Len(entries) :
        /\ entries[j].ok
        /\ ~entries[j].dir
        /\ extension(entries[j].name) = Some(<<"j", "s">>)
        /\ ~ends_with(entries[j].name, FixtureSuffix)}}

\* C4: when the traversal succeeds, test_paths holds the visited entries
\* that are no directory, have the extension js and a name that does not
\* end with _FIXTURE.js, each once, and nothing else.
C4_ExactlyTheScripts ==
    pc \in {"ready", "panicked"} =>
        /\ {test_paths[i] : i \in 1..Len(test_paths)} = Scripts(walk)
        /\ Len(test_paths) = Cardinality(Scripts(walk))

\* C5: when the traversal reports an error for an entry, Harness::new
\* returns Err(WalkDir) of the first such error and there is no Harness:
\* no path list, no call of next(), whatever was visited before the error.
C5_FirstWalkError ==
    (pc # "start" /\ \E i \in 1..Len(walk) : ~walk[i].ok) =>
        /\ pc = "failed"
        /\ ~new_result.ok
        /\ new_result.err =
                [type |-> "WalkDir",
                 cause |-> walk[Min({i \in 1..Len(walk) : ~walk[i].ok})].err]
        /\ test_paths = <<>>
        /\ calls = 0
        /\ reads = <<>>

\* C5, reached: a script, then an error, then another error
C5_ErrorAfterScript ==
    /\ pc = "failed"
    /\ Len(walk) = 3
    /\ walk[1] = File(<<"a", ".", "j", "s">>)
    /\ ~walk[2].ok
    /\ ~walk[3].ok
    /\ walk[2].err # walk[3].err
    /\ new_result.err = [type |-> "WalkDir", cause |-> walk[2].err]

\* the blocks that set a key, every key and value one the corpus defines
Defined(d) ==
    /\ d.strs # {} \/ d.hasFlags \/ d.lists \/ d.negative.present
    /\ \A i \in 1..Len(d.flags) : d.flags[i].variant # ""
    /\ d.negative.present =>
        /\ d.negative.phase.variant # ""
        /\ Len(d.negative.keys) <= 1

AsSet(d) ==
    [id |-> IF "id" \in d.strs THEN Some("dummytest") ELSE None,
     esid |-> IF "esid" \in d.strs THEN Some("dummyesid") ELSE None,
     es5id |-> IF "es5id" \in d.strs THEN Some("dummyes5id") ELSE None,
     es6id |-> IF "es6id" \in d.strs THEN Some("dummyes6id") ELSE None,
     info |-> IF "info" \in d.strs THEN Some("about") ELSE None,
     description |-> IF "description" \in d.strs THEN Some("handy") ELSE None,
     negative |->
        IF d.negative.present
        THEN Some([phase |-> d.negative.phase.variant,
                   kind |-> IF d.negative.keys = <<>> THEN None ELSE Some("Exception")])
        ELSE None,
     includes |-> IF d.lists THEN <<"assert.js">> ELSE <<>>,
     flags |-> IF d.hasFlags THEN [i \in 1..Len(d.flags) |-> d.flags[i].variant] ELSE <<>>,
     locale |-> IF d.lists THEN <<"en-us">> ELSE <<>>,
     features |-> IF d.lists THEN <<"BestFeature", "let">> ELSE <<>>]

\* C6: decoding a metadata block gives a Description in which every key the
\* block sets is the field of that name: the strings Some of their value,
\* each listed flag, locale and feature one element, negative a Negative
\* with the phase named and kind Some of the name given under kind or type.
C6_KeysToFields ==
    (pc = "done" /\ Defined(input.choice)) =>
        /\ output.kind = "Ok"
        /\ output.test.desc = AsSet(input.choice)

\* C6, reached: flags: [noStrict] and negative: {phase: parse, type: Exception}
C6_LegacyTypeKey ==
    /\ pc = "done"
    /\ input.choice.hasFlags
    /\ input.choice.flags = <<Spelled("noStrict", "NoStrict")>>
    /\ input.choice.negative.present
    /\ input.choice.negative.phase.wire = "parse"
    /\ input.choice.negative.keys = <<"type">>
    /\ output.kind = "Ok"
    /\ output.test.desc.flags = <<"NoStrict">>
    /\ output.test.desc.negative = Some([phase |-> "Parse", kind |-> Some("Exception")])

\* C7: for a text that starts with the line "// Copyright (c) <year>
\* <holder>.  All rights reserved." and the line "// This code is governed
\* by the <name> license found in the LICENSE file.", then a blank line and
\* a valid metadata block, Test::license() is Some of exactly these two
\* lines, the second with its line break.
C7_LicenseIsTheTwoLines ==
    (/\ pc = "done"
     /\ input.choice.style = "spaced"
     /\ input.choice.copyright
     /\ input.choice.mark = "c"
     /\ input.choice.second \in {"governedBSD", "governedMIT"}
     /\ input.choice.blank >= 1
     /\ input.choice.yaml = "good") =>
        /\ output.kind = "Ok"
        /\ Test_license(output.test) = Some(NoticeText(input.choice))

\* C8: for a text with a decodable metadata block create_test returns Ok
\* whether or not there is a license notice, and when the text has no
\* copyright line, so that no pattern of the notice occurs in it,
\* Test::license() is None.
C8_NoNoticeIsNoError ==
    (pc = "done" /\ input.choice.yaml = "good") =>
        /\ output.kind = "Ok"
        /\ ~input.choice.copyright => Test_license(output.test) = None

\* C8, reached: a comment that is no notice, then the metadata block
C8_CommentOnly ==
    /\ pc = "done"
    /\ ~input.choice.copyright
    /\ input.choice.second = "none"
    /\ input.choice.comment
    /\ input.choice.yaml = "good"
    /\ output.kind = "Ok"
    /\ Test_license(output.test) = None

\* C10: Harness::new reads no file; the k-th call of next() reads one file,
\* the k-th path, so the files read are the first idx paths in order, no
\* path twice, and none after them; idx never decreases.
C10_LazySinglePass ==
    /\ [](/\ calls = 0 => reads = <<>>
          /\ Len(reads) = idx
          /\ idx <= Len(test_paths)
          /\ Len(reads) = calls - nones
          /\ \A i \in 1..Len(reads) : reads[i].path = test_paths[i]
          /\ \A i, j \in 1..Len(reads) : i # j => reads[i].path # reads[j].path)
    /\ [][/\ idx' >= idx
          /\ calls' = calls => reads' = reads
          /\ calls' # calls => /\ calls' = calls + 1
                               /\ Len(reads') <= Len(reads) + 1
                               /\ SubSeq(reads', 1, Len(reads)) = reads]_vars

\* C10, reached: the consumer stopped after one of two paths
C10_StoppedEarly ==
    /\ pc = "ready"
    /\ Len(test_paths) >= 2
    /\ calls = 1
    /\ idx = 1
    /\ Len(reads) = 1
    /\ reads[1].path = test_paths[1]

====
